---- MODULE Spec2Model ----
(***************************************************************************)
(* Bird flock simulation (src/main.rs): Bird (position, velocity,          *)
(* acceleration; update, apply_force, distance_to) and Flock (birds;       *)
(* update = clone the birds, then one closure per bird run by rayon).      *)
(*                                                                         *)
(* Numbers.  The program computes in f32.  Here every f32 value is a       *)
(* fixed-point integer counting units of 0.0005, so that every constant    *)
(* of the program is a whole number of units (GRAVITY = 0.0005 is one      *)
(* unit, 1.0 is ONE = 2000 units).  As in IEEE arithmetic every operation  *)
(* is the exact operation followed by rounding to the nearest              *)
(* representable value; additions and subtractions are exact on the grid.  *)
(* NaN and the infinities are not represented: all values of the model     *)
(* stay far below the overflow threshold.                                  *)
(***************************************************************************)
EXTENDS Integers, Sequences, FiniteSets, TLC

(* ------------------------------ bounds -------------------------------- *)
\* Largest flock of the model (the program builds NUM_BIRDS = 10 birds).
NumBirds == 2
\* Number of calls of Flock::update that are explored.
MaxTicks == 2
\* Number of heap blocks the allocator can hand out for a Vec<Bird> buffer.
NumBlocks == 2
\* Number of apply_force calls explored on the stand-alone bird.
MaxForces == 2

(* ------------------- program constants, in units ---------------------- *)
ONE == 2000
MAX_SPEED == 40
NEIGHBOUR_RADIUS == 2000
SEPARATION_WEIGHT == 3000
ALIGNMENT_WEIGHT == 2000
COHESION_WEIGHT == 2000
GRAVITY == 1
BOUNDARY_SIZE == 10000
BOUNDARY_FORCE == 200
BOUNCE == 1600
BIRD_SIZE == 36

(* --------------------------- f32 arithmetic --------------------------- *)
Abs(x) == IF x < 0 THEN -x ELSE x

\* f32::signum: 1.0 for positive numbers and +0.0, -1.0 for negative ones.
Signum(x) == IF x < 0 THEN -1 ELSE 1

\* a / b for b > 0, rounded to the nearest integer.
RDiv(a, b) == Signum(a) * ((2 * Abs(a) + b) \div (2 * b))

\* f32 product and quotient of two fixed-point values.
FMul(a, b) == RDiv(a * b, ONE)
FDiv(a, b) == RDiv(a * ONE, b)

RECURSIVE SqrtSearch(_, _, _)
SqrtSearch(s, lo, hi) ==
    IF lo >= hi THEN lo
    ELSE LET mid == (lo + hi + 1) \div 2
         IN  IF mid * mid <= s THEN SqrtSearch(s, mid, hi)
                               ELSE SqrtSearch(s, lo, mid - 1)

\* f32::sqrt of x*x + y*y + z*z, given that sum in squared units:
\* the correctly rounded square root.
Sqrt(s) ==
    LET f == SqrtSearch(s, 0, 46340)
    IN  IF s - f * f > f THEN f + 1 ELSE f

Axes == 1..3
Zero3 == <<0, 0, 0>>
Add3(u, v) == [i \in Axes |-> u[i] + v[i]]
Sub3(u, v) == [i \in Axes |-> u[i] - v[i]]
Norm(v) == Sqrt(v[1] * v[1] + v[2] * v[2] + v[3] * v[3])

\* BOUNDARY_SIZE/2.0
HalfBoundary == FDiv(BOUNDARY_SIZE, 2 * ONE)

(* -------------------------------- Bird -------------------------------- *)
Bird(p, v, a) == [position |-> p, velocity |-> v, acceleration |-> a]

\* The speed clamp of Bird::update on axis i: the speed is the norm of the
\* whole velocity as it stands, and only component i is scaled.  scale =
\* MAX_SPEED / speed lies in (0,1), where f32 keeps 24 significant bits and
\* the unit grid would keep none; it is carried as the exact ratio and the
\* product velocity[i] * scale is rounded once.
ClampSpeed(vel, i) ==
    LET speed == Norm(vel)
    IN  IF speed > MAX_SPEED
        THEN [vel EXCEPT ![i] = RDiv(vel[i] * MAX_SPEED, speed)]
        ELSE vel

\* The boundary reflection of Bird::update on one axis: v and p are
\* velocity[i] and position[i] after position[i] += velocity[i].
Reflect_nobounce(v, p) ==
    IF Abs(p) > HalfBoundary
    THEN [v |-> -v, p |-> IF p > 0 THEN HalfBoundary ELSE -HalfBoundary]
    ELSE [v |-> v, p |-> p]

Reflect_noclamp(v, p) ==
    IF Abs(p) > HalfBoundary
    THEN [v |-> FMul(-v, BOUNCE), p |-> p]
    ELSE [v |-> v, p |-> p]

Reflect(v, p) ==
    IF Abs(p) > HalfBoundary
    THEN [v |-> FMul(-v, BOUNCE),
          p |-> IF p > 0 THEN HalfBoundary ELSE -HalfBoundary]
    ELSE [v |-> v, p |-> p]

\* self.acceleration[i] = 0.0
ResetAcceleration_keep(acc, i) == acc

ResetAcceleration(acc, i) == [acc EXCEPT ![i] = 0]

\* One iteration of the loop of Bird::update.  The result carries the bird
\* and, for the record, velocity[i] after the clamp and position[i] after
\* the addition.
AxisStep(b, i) ==
    LET v1 == [b.velocity EXCEPT ![i] = @ + b.acceleration[i]]
        v2 == ClampSpeed(v1, i)
        p2 == b.position[i] + v2[i]
        r  == Reflect(v2[i], p2)
    IN  [bird |-> Bird([b.position EXCEPT ![i] = r.p],
                       [v2 EXCEPT ![i] = r.v],
                       ResetAcceleration(b.acceleration, i)),
         v |-> v2[i],
         p |-> p2]

\* Bird::update: the three iterations, with their records.
Bird_update(b) ==
    LET s1 == AxisStep(b, 1)
        s2 == AxisStep(s1.bird, 2)
        s3 == AxisStep(s2.bird, 3)
    IN  [bird |-> s3.bird,
         v |-> <<s1.v, s2.v, s3.v>>,
         p |-> <<s1.p, s2.p, s3.p>>]

\* Bird::apply_force
apply_force(b, force) ==
    [b EXCEPT !.acceleration = Add3(@, force)]

\* Bird::distance_to
distance_to(b, other) == Norm(Sub3(b.position, other.position))

(* ------------------------------- Flock -------------------------------- *)
\* Address of element idx (from 1) of a Vec<Bird> whose buffer starts at base.
Address(base, idx) == base + (idx - 1) * BIRD_SIZE

\* The heap blocks a Vec<Bird> buffer can occupy: each is large enough for
\* the largest flock, and two live buffers never share a block.
Blocks == {k * (NumBirds * BIRD_SIZE) : k \in 1..NumBlocks}

\* The block of the buffer of Flock.birds, allocated by Flock::new before
\* any clone exists.  Only the relative placement of the two buffers
\* matters, so the first block stands for whichever block it is.
FirstBlock == CHOOSE b \in Blocks : \A c \in Blocks : b <= c

\* The sequence the neighbour scan iterates over: birds_shared.iter().
ScanSource_live(live, shared) == live

ScanSource(live, shared) == shared

\* if dist < NEIGHBOUR_RADIUS
InRadius_inclusive(dist) == dist <= NEIGHBOUR_RADIUS

InRadius(dist) == dist < NEIGHBOUR_RADIUS

\* separation += bird.position - other.position
SeparationTerm_reversed(bird, other) == Sub3(other.position, bird.position)

SeparationTerm(bird, other) == Sub3(bird.position, other.position)

\* The locals of the closure before the scan.  hits lists, for the record,
\* the indices of the entries that passed the radius test.
Locals0 ==
    [separation |-> Zero3, alignment |-> Zero3, cohesion |-> Zero3,
     neighbour_count |-> 0, hits |-> <<>>]

\* One iteration of the neighbour scan: bird is the closure's bird, other
\* is entry j of the scanned sequence, the pointers are their addresses.
ScanEntry(loc, bird, other, bird_ptr, other_ptr, j) ==
    IF bird_ptr = other_ptr THEN loc
    ELSE IF InRadius(distance_to(bird, other))
    THEN [separation |-> Add3(loc.separation, SeparationTerm(bird, other)),
          alignment |-> Add3(loc.alignment, other.velocity),
          cohesion |-> Add3(loc.cohesion, other.position),
          neighbour_count |-> loc.neighbour_count + 1,
          hits |-> Append(loc.hits, j)]
    ELSE loc

RECURSIVE Scan(_, _, _, _, _, _)
Scan(loc, bird, others, bird_ptr, others_base, j) ==
    IF j > Len(others) THEN loc
    ELSE Scan(ScanEntry(loc, bird, others[j], bird_ptr,
                        Address(others_base, j), j),
              bird, others, bird_ptr, others_base, j + 1)

\* The three flocking forces, computed when neighbour_count > 0.
SeparationForce(loc) ==
    [i \in Axes |-> FMul(loc.separation[i], SEPARATION_WEIGHT)]

AlignmentForce(loc, bird) ==
    [i \in Axes |->
        FMul(FDiv(loc.alignment[i], loc.neighbour_count * ONE)
               - bird.velocity[i], ALIGNMENT_WEIGHT)]

CohesionForce(loc, bird) ==
    [i \in Axes |->
        FMul(FDiv(loc.cohesion[i], loc.neighbour_count * ONE)
               - bird.position[i], COHESION_WEIGHT)]

\* bird.apply_force([0.0, -GRAVITY, 0.0])
GravityForce == <<0, -GRAVITY, 0>>

\* if bird.position[i].abs() > BOUNDARY_SIZE/2.0 - 1.0
NearBoundary_inclusive(p) == Abs(p) >= HalfBoundary - ONE

NearBoundary(p) == Abs(p) > HalfBoundary - ONE

\* The force applied for axis i when the bird is near the boundary there.
BoundaryForce(bird, i) ==
    [k \in Axes |-> IF k = i THEN -Signum(bird.position[i]) * BOUNDARY_FORCE
                             ELSE 0]

Force(site, f) == [site |-> site, f |-> f]

RECURSIVE BoundaryForces(_, _)
BoundaryForces(bird, i) ==
    IF i > 3 THEN <<>>
    ELSE (IF NearBoundary(bird.position[i])
          THEN <<Force("boundary", BoundaryForce(bird, i))>>
          ELSE <<>>) \o BoundaryForces(bird, i + 1)

\* The arguments of the closure's calls of apply_force, in order, each with
\* the call site it comes from.
Forces(loc, bird) ==
    (IF loc.neighbour_count > 0
     THEN <<Force("separation", SeparationForce(loc)),
            Force("alignment", AlignmentForce(loc, bird)),
            Force("cohesion", CohesionForce(loc, bird))>>
     ELSE <<>>)
    \o <<Force("gravity", GravityForce)>>
    \o BoundaryForces(bird, 1)

RECURSIVE ApplyAll(_, _)
ApplyAll(b, fs) ==
    IF fs = <<>> THEN b ELSE ApplyAll(apply_force(b, Head(fs).f), Tail(fs))

(* ------------------------------- state -------------------------------- *)
VARIABLES
    birds,          \* Flock.birds
    birds_base,     \* address of the buffer of Flock.birds
    birds_shared,   \* the clone made by Flock::update
    shared_base,    \* address of the buffer of the clone
    pc,             \* "idle" between calls of Flock::update, "par" inside
    task,           \* per bird: "wait", "forces", "update", "done"
    locals,         \* per bird: the closure's locals after the scan
    applied,        \* per bird: the apply_force calls of the closure
    steps,          \* per bird: the record of its Bird::update
    ticks,          \* completed calls of Flock::update
    probe,          \* a stand-alone bird
    probe_pre,      \* the stand-alone bird before its last update
    probe_steps,    \* the record of the stand-alone bird's last update
    probe_pc,       \* "fresh", "updated"
    probe_forces    \* apply_force calls made on the stand-alone bird

vars == <<birds, birds_base, birds_shared, shared_base, pc, task, locals,
          applied, steps, ticks, probe, probe_pre, probe_steps, probe_pc,
          probe_forces>>

flock_vars == <<birds, birds_base, birds_shared, shared_base, pc, task,
                locals, applied, steps, ticks>>

probe_vars == <<probe, probe_pre, probe_steps, probe_pc, probe_forces>>

Ids == DOMAIN birds
NoSteps == [v |-> Zero3, p |-> Zero3]

(* Bird::new draws each position component from [-BOUNDARY_SIZE/2,         *)
(* BOUNDARY_SIZE/2] and each velocity component from [-0.01, 0.01] (20     *)
(* units); the acceleration is zero.  The flocks explored are built from   *)
(* these birds.                                                            *)
NewBirds ==
    { Bird(<<0, 0, 0>>, <<0, 0, 0>>, Zero3),
      Bird(<<1000, 0, 0>>, <<0, 0, 0>>, Zero3),
      Bird(<<2000, 0, 0>>, <<20, -20, 0>>, Zero3),
      Bird(<<1999, 0, 0>>, <<-20, 0, 20>>, Zero3),
      Bird(<<4990, -4990, 3000>>, <<20, -20, 20>>, Zero3),
      Bird(<<4000, -4200, 3001>>, <<0, 0, 0>>, Zero3) }

\* Flock::new, for a flock of n birds.
FlockInit ==
    /\ \E n \in 1..NumBirds : birds \in [1..n -> NewBirds]
    /\ birds_base = FirstBlock
    /\ birds_shared = <<>>
    /\ shared_base = 0
    /\ pc = "idle"
    /\ task = [i \in DOMAIN birds |-> "wait"]
    /\ locals = [i \in DOMAIN birds |-> Locals0]
    /\ applied = [i \in DOMAIN birds |-> <<>>]
    /\ steps = [i \in DOMAIN birds |-> NoSteps]
    /\ ticks = 0

ProbeIdle ==
    /\ probe = Bird(Zero3, Zero3, Zero3)
    /\ probe_pre = probe
    /\ probe_steps = NoSteps
    /\ probe_pc = "fresh"
    /\ probe_forces = 0

Init == FlockInit /\ ProbeIdle

\* let birds_copy = self.birds.clone(); let birds_shared = Arc::new(..)
Clone ==
    /\ pc = "idle"
    /\ ticks < MaxTicks
    /\ birds_shared' = birds
    /\ shared_base' \in Blocks \ {birds_base}
    /\ pc' = "par"
    /\ task' = [i \in Ids |-> "forces"]
    /\ locals' = [i \in Ids |-> Locals0]
    /\ applied' = [i \in Ids |-> <<>>]
    /\ steps' = [i \in Ids |-> NoSteps]
    /\ UNCHANGED <<birds, birds_base, ticks, probe_vars>>

\* The closure of par_iter_mut().for_each for bird i, up to bird.update().
ComputeForces(i) ==
    /\ pc = "par"
    /\ task[i] = "forces"
    /\ LET bird == birds[i]
           loc  == Scan(Locals0, bird, ScanSource(birds, birds_shared),
                        Address(birds_base, i), shared_base, 1)
           fs   == Forces(loc, bird)
       IN  /\ locals' = [locals EXCEPT ![i] = loc]
           /\ applied' = [applied EXCEPT ![i] = fs]
           /\ birds' = [birds EXCEPT ![i] = ApplyAll(bird, fs)]
    /\ task' = [task EXCEPT ![i] = "update"]
    /\ UNCHANGED <<birds_base, birds_shared, shared_base, pc, steps, ticks,
                   probe_vars>>

\* bird.update() at the end of the closure for bird i.
Integrate(i) ==
    /\ pc = "par"
    /\ task[i] = "update"
    /\ LET u == Bird_update(birds[i])
       IN  /\ birds' = [birds EXCEPT ![i] = u.bird]
           /\ steps' = [steps EXCEPT ![i] = [v |-> u.v, p |-> u.p]]
    /\ task' = [task EXCEPT ![i] = "done"]
    /\ UNCHANGED <<birds_base, birds_shared, shared_base, pc, locals,
                   applied, ticks, probe_vars>>

\* for_each returns when every closure has run; Flock::update returns.
Join ==
    /\ pc = "par"
    /\ \A i \in Ids : task[i] = "done"
    /\ pc' = "idle"
    /\ ticks' = ticks + 1
    /\ UNCHANGED <<birds, birds_base, birds_shared, shared_base, task,
                   locals, applied, steps, probe_vars>>

Next ==
    \/ Clone
    \/ \E i \in Ids : ComputeForces(i)
    \/ \E i \in Ids : Integrate(i)
    \/ Join

Spec == Init /\ [][Next]_vars

(* ----------------------- a bird on its own ---------------------------- *)
ProbePositions ==
    { <<5000, 0, 0>>, <<0, 0, 0>>, <<-4990, 4990, 0>>, <<4981, -5000, 2500>> }
ProbeVelocities ==
    { <<20, 0, 0>>, <<0, 0, 0>>, <<-20, 20, -20>>, <<10, -15, 5>> }
ProbeForces ==
    { <<0, -1, 0>>, <<-200, 0, 200>>, <<1000, -500, 30>> }

FlockIdle ==
    /\ birds = <<Bird(Zero3, Zero3, Zero3)>>
    /\ birds_base = FirstBlock
    /\ birds_shared = <<>>
    /\ shared_base = 0
    /\ pc = "idle"
    /\ task = [i \in DOMAIN birds |-> "wait"]
    /\ locals = [i \in DOMAIN birds |-> Locals0]
    /\ applied = [i \in DOMAIN birds |-> <<>>]
    /\ steps = [i \in DOMAIN birds |-> NoSteps]
    /\ ticks = 0

BirdInit ==
    /\ FlockIdle
    /\ \E p \in ProbePositions, v \in ProbeVelocities :
          probe = Bird(p, v, Zero3)
    /\ probe_pre = probe
    /\ probe_steps = NoSteps
    /\ probe_pc = "fresh"
    /\ probe_forces = 0

\* probe.apply_force(force)
ProbeApplyForce(force) ==
    /\ probe_forces < MaxForces
    /\ probe' = apply_force(probe, force)
    /\ probe_forces' = probe_forces + 1
    /\ probe_pc' = "fresh"
    /\ UNCHANGED <<probe_pre, probe_steps, flock_vars>>

\* probe.update()
ProbeUpdate ==
    /\ probe_pc = "fresh"
    /\ LET u == Bird_update(probe)
       IN  /\ probe' = u.bird
           /\ probe_steps' = [v |-> u.v, p |-> u.p]
    /\ probe_pre' = probe
    /\ probe_pc' = "updated"
    /\ UNCHANGED <<probe_forces, flock_vars>>

BirdNext ==
    \/ \E force \in ProbeForces : ProbeApplyForce(force)
    \/ ProbeUpdate

BirdSpec == BirdInit /\ [][BirdNext]_vars

(* ------------------------------ claims -------------------------------- *)
Scanned(i) == task[i] \in {"update", "done"}
Updated(i) == task[i] = "done"

\* The other birds of the snapshot that bird i's scan measures inside the
\* neighbour radius.
OthersInRadius(i) ==
    { j \in Ids \ {i} :
        distance_to(birds_shared[i], birds_shared[j]) < NEIGHBOUR_RADIUS }

Occurrences(seq, x) == Cardinality({k \in DOMAIN seq : seq[k] = x})

RECURSIVE SumForces(_)
SumForces(fs) == IF fs = <<>> THEN Zero3 ELSE Add3(Head(fs).f, SumForces(Tail(fs)))

ForcesAt(i, site) == SelectSeq(applied[i], LAMBDA e : e.site = site)

\* C1: once bird i's neighbour scan has run, i is not among the entries it
\* counted, and neighbour_count is the number of other birds whose distance
\* to i is below NEIGHBOUR_RADIUS.
C1_NoSelfNeighbour ==
    \A i \in Ids : Scanned(i) =>
        /\ Occurrences(locals[i].hits, i) = 0
        /\ locals[i].neighbour_count = Cardinality(OthersInRadius(i))

\* Five percent of MAX_SPEED: far more than the rounding of one update.
SpeedTolerance == MAX_SPEED \div 20

SpeedSq(v) == v[1] * v[1] + v[2] * v[2] + v[3] * v[3]

\* C2: when a bird whose speed was at most MAX_SPEED has been updated, its
\* speed is at most MAX_SPEED (up to the rounding tolerance).
C2_SpeedCap ==
    \A i \in Ids :
        (Updated(i) /\ SpeedSq(birds_shared[i].velocity) <= MAX_SPEED * MAX_SPEED)
        => SpeedSq(birds[i].velocity)
             <= (MAX_SPEED + SpeedTolerance) * (MAX_SPEED + SpeedTolerance)

\* C3: every position component of every bird stays within
\* [-BOUNDARY_SIZE/2, BOUNDARY_SIZE/2], in every state of every tick.
C3_BoundaryContainment ==
    \A i \in Ids : \A a \in Axes : Abs(birds[i].position[a]) <= HalfBoundary

\* A bird has crossed the hard boundary during an update and was put back.
C3_Witness ==
    /\ ticks >= 1
    /\ \E i \in Ids : \E a \in Axes :
          Updated(i) /\ Abs(steps[i].p[a]) > HalfBoundary

\* The post-tick state of bird i as a function of the snapshot alone: the
\* closure run on the snapshot's own entry, for one fixed pair of buffers.
PostTick(snapshot, i) ==
    LET b0   == FirstBlock
        b1   == CHOOSE b \in Blocks \ {b0} : TRUE
        bird == snapshot[i]
        loc  == Scan(Locals0, bird, snapshot, Address(b0, i), b1, 1)
    IN  Bird_update(ApplyAll(bird, Forces(loc, bird))).bird

\* C4: whatever the order in which the closures ran, a bird that has been
\* processed holds the state PostTick computes from the pre-tick snapshot,
\* and a bird not yet processed still holds its snapshot state.
C4_SnapshotDeterminism ==
    pc = "par" =>
        \A i \in Ids :
            /\ Updated(i) => birds[i] = PostTick(birds_shared, i)
            /\ task[i] = "forces" => birds[i] = birds_shared[i]

\* A tick of a flock of several birds has completed in which a bird that
\* was scanned after another bird's update counted that bird.
C4_Witness ==
    /\ pc = "idle" /\ ticks >= 1 /\ Cardinality(Ids) >= 2
    /\ \E i \in Ids : \E j \in OthersInRadius(i) :
          birds[j] # birds_shared[j]

\* C5: outside the stretch between the closure's apply_force calls and its
\* bird.update(), every bird's acceleration is (0,0,0); inside it, the
\* acceleration is the sum of this tick's forces only.
C5_AccelerationReset ==
    \A i \in Ids :
        IF task[i] = "update"
        THEN birds[i].acceleration = SumForces(applied[i])
        ELSE birds[i].acceleration = Zero3

\* In the second tick a bird whose forces did not cancel has been updated.
C5_Witness ==
    /\ ticks >= 1 /\ pc = "par"
    /\ \E i \in Ids : Updated(i) /\ SumForces(applied[i]) # Zero3
                      /\ birds[i].acceleration = Zero3

\* The sum of term[j] over the birds j of S.
RECURSIVE SumOver(_, _)
SumOver(S, term) ==
    IF S = {} THEN Zero3
    ELSE LET j == CHOOSE x \in S : TRUE
         IN  Add3(term[j], SumOver(S \ {j}, term))

Positions == [j \in Ids |-> birds_shared[j].position]
Velocities == [j \in Ids |-> birds_shared[j].velocity]

SelfHits(i) == Occurrences(locals[i].hits, i)
Times(n, v) == [a \in Axes |-> n * v[a]]

\* C6: another bird at distance NEIGHBOUR_RADIUS or more is not counted and
\* adds nothing to the three sums; another bird at a smaller distance is
\* counted exactly once and adds its term once.
C6_StrictRadius ==
    \A i \in Ids : Scanned(i) =>
        LET me == birds_shared[i]
            O  == OthersInRadius(i)
        IN  /\ \A j \in Ids \ {i} :
                  Occurrences(locals[i].hits, j) = (IF j \in O THEN 1 ELSE 0)
            /\ locals[i].separation =
                  SumOver(O, [j \in Ids |-> Sub3(me.position, Positions[j])])
            /\ Sub3(locals[i].alignment, Times(SelfHits(i), me.velocity)) =
                  SumOver(O, Velocities)
            /\ Sub3(locals[i].cohesion, Times(SelfHits(i), me.position)) =
                  SumOver(O, Positions)

\* A scan has met another bird at exactly NEIGHBOUR_RADIUS and left it out.
C6_Witness ==
    \E i \in Ids : \E j \in Ids \ {i} :
        /\ Scanned(i)
        /\ distance_to(birds_shared[i], birds_shared[j]) = NEIGHBOUR_RADIUS
        /\ Occurrences(locals[i].hits, j) = 0

\* C7: after Bird::update, on every axis: if the position reached by
\* position += velocity was outside the boundary, the velocity is -0.8 times
\* the velocity at that point and the position is the boundary on the same
\* side; otherwise both are as they were at that point.  The bird at
\* (BOUNDARY_SIZE/2,0,0) with velocity (0.01,0,0) ends with velocity.x =
\* -0.008 and position.x = BOUNDARY_SIZE/2.
C7_Reflection ==
    probe_pc = "updated" =>
        /\ \A a \in Axes :
              LET v == probe_steps.v[a]
                  p == probe_steps.p[a]
              IN  /\ p = probe_pre.position[a] + v
                  /\ IF Abs(p) > BOUNDARY_SIZE \div 2
                     THEN /\ probe.velocity[a] = RDiv(-4 * v, 5)
                          /\ probe.position[a] =
                                Signum(p) * (BOUNDARY_SIZE \div 2)
                     ELSE /\ probe.velocity[a] = v
                          /\ probe.position[a] = p
        /\ probe_pre = Bird(<<BOUNDARY_SIZE \div 2, 0, 0>>, <<20, 0, 0>>, Zero3)
              => probe.velocity[1] = -16 /\ probe.position[1] = BOUNDARY_SIZE \div 2

\* The bird of the example has been updated.
C7_Witness ==
    /\ probe_pc = "updated"
    /\ probe_pre = Bird(<<BOUNDARY_SIZE \div 2, 0, 0>>, <<20, 0, 0>>, Zero3)
    /\ probe.velocity[1] < 0

\* Bird a at rest at the origin and bird b at rest at (d,0,0), 0 < d <
\* NEIGHBOUR_RADIUS, are the whole pre-tick flock.
TwoAtRest(a, b) ==
    /\ Ids = {a, b} /\ a # b
    /\ birds_shared[a] = Bird(Zero3, Zero3, Zero3)
    /\ birds_shared[b].velocity = Zero3
    /\ birds_shared[b].position[2] = 0
    /\ birds_shared[b].position[3] = 0
    /\ birds_shared[b].position[1] > 0
    /\ birds_shared[b].position[1] < NEIGHBOUR_RADIUS

\* C8: in the flock of TwoAtRest, the forces applied to a sum to a force
\* with negative x, -GRAVITY in y and zero z, and after its update a's
\* velocity has negative x, negative y and zero z.
C8_TwoAtRest ==
    \A a \in Ids : \A b \in Ids :
        (pc = "par" /\ TwoAtRest(a, b) /\ Updated(a)) =>
            /\ SumForces(applied[a])[1] < 0
            /\ SumForces(applied[a])[2] = -GRAVITY
            /\ SumForces(applied[a])[3] = 0
            /\ birds[a].velocity[1] < 0
            /\ birds[a].velocity[2] < 0
            /\ birds[a].velocity[3] = 0

\* The scenario of the specification (d = 0.5) has been run.
C8_Witness ==
    \E a \in Ids : \E b \in Ids :
        /\ pc = "par" /\ TwoAtRest(a, b) /\ Updated(a)
        /\ birds_shared[b].position[1] = ONE \div 2

MeanOthers(i, term) ==
    LET O == OthersInRadius(i)
    IN  [a \in Axes |-> FDiv(SumOver(O, term)[a], Cardinality(O) * ONE)]

\* C9: for a bird with at least one other bird in the radius, the alignment
\* force is (mean velocity of the other birds in the radius - own velocity)
\* * ALIGNMENT_WEIGHT and the cohesion force is (mean position of the other
\* birds in the radius - own position) * COHESION_WEIGHT.
C9_MeansOverOthers ==
    \A i \in Ids : (Scanned(i) /\ OthersInRadius(i) # {}) =>
        LET me == birds_shared[i]
            mv == MeanOthers(i, Velocities)
            mp == MeanOthers(i, Positions)
        IN  /\ ForcesAt(i, "alignment") =
                 << Force("alignment",
                      [a \in Axes |-> FMul(mv[a] - me.velocity[a], ALIGNMENT_WEIGHT)]) >>
            /\ ForcesAt(i, "cohesion") =
                 << Force("cohesion",
                      [a \in Axes |-> FMul(mp[a] - me.position[a], COHESION_WEIGHT)]) >>

Unit(a, x) == [k \in Axes |-> IF k = a THEN x ELSE 0]

\* C10: the closure applies gravity (0,-GRAVITY,0) exactly once to every
\* bird; for each axis it applies a boundary force exactly when the
\* pre-tick |position| on that axis exceeds BOUNDARY_SIZE/2 - 1.0, and that
\* force is BOUNDARY_FORCE on that axis alone, directed against the sign of
\* the position.
C10_BoundaryAndGravity ==
    \A i \in Ids : Scanned(i) =>
        LET me   == birds_shared[i]
            near == { a \in Axes : Abs(me.position[a]) > BOUNDARY_SIZE \div 2 - ONE }
            bf   == ForcesAt(i, "boundary")
        IN  /\ ForcesAt(i, "gravity") = << Force("gravity", <<0, -GRAVITY, 0>>) >>
            /\ Len(bf) = Cardinality(near)
            /\ \A a \in near :
                  Occurrences(bf, Force("boundary",
                      Unit(a, IF me.position[a] > 0 THEN -BOUNDARY_FORCE
                                                    ELSE BOUNDARY_FORCE))) = 1

\* A bird beyond the soft margin on one axis, exactly on it on another and
\* on the negative side of a third has had its forces applied.
C10_Witness ==
    \E i \in Ids :
        /\ Scanned(i)
        /\ \E a \in Axes : birds_shared[i].position[a] > BOUNDARY_SIZE \div 2 - ONE
        /\ \E a \in Axes : birds_shared[i].position[a] < -(BOUNDARY_SIZE \div 2 - ONE)
        /\ \E a \in Axes : Abs(birds_shared[i].position[a]) = BOUNDARY_SIZE \div 2 - ONE

====
